---- MODULE Spec2Model ----
(***************************************************************************)
(* The in-process task scheduler of src/src/services/task_manager.py      *)
(* (class TaskManager) together with the administrative delete of         *)
(* src/src/routes/tasks.py, as a state machine.                           *)
(*                                                                         *)
(* Threads of the program and how they appear here:                       *)
(*   - one API (request) thread: create_task, cancel_task, retry_task,    *)
(*     the bulk delete, get_metrics, start and stop.  Handlers that read  *)
(*     shared state and then write it are split at the point between the  *)
(*     read and the write; the position is kept in api.                   *)
(*   - the coordinating loop thread (_worker_loop): one iteration (scan,  *)
(*     dispatch, reaping) is one step; the position is kept in loop_pc.   *)
(*   - the pool threads of the ThreadPoolExecutor: one execution of       *)
(*     _run_task per future; the position is kept in future[f].pc.        *)
(***************************************************************************)
EXTENDS Integers, Sequences, FiniteSets, TLC

\* ------------------------------------------------------------------ bounds
MaxTasks    == 2   \* Task objects ever constructed
MaxDispatch == 2   \* futures ever submitted to the executor
MaxWorkers  == 2   \* largest pool size the constructor is called with
MaxCalls    == 5   \* calls served by the API thread
\* the bounds of the specification of the queue (SpecQueue)
QueueTasks    == 3
QueueCalls    == 4
QueueDispatch == 3
\* the bounds of the specification of the retries (SpecRetry)
RetryTasks    == 2
RetryCalls    == 4
RetryDispatch == 4
\* the bounds of the specification of the retried dependents (SpecDep)
DepTasks    == 2
DepCalls    == 4
DepDispatch == 2
\* the bounds of the specification of the loop threads (SpecLoops)
LoopsTasks    == 1
LoopsCalls    == 4
LoopsDispatch == 2
\* the bounds of the specification of the metrics (SpecMetrics)
MetricsTasks    == 1
MetricsCalls    == 4
MetricsDispatch == 2
\* the specification with fairness
LiveTasks    == 2
LiveCalls    == 4
LiveDispatch == 2

\* ------------------------------------------------------- program constants
RetryDelay  == 60  \* Task.retry_delay
NormalInterval == 1  \* _worker_loop: time.sleep(1) after an iteration
ErrorInterval  == 5  \* _worker_loop: time.sleep(5) after an exception
LOW         == 1   \* TaskPriority.LOW
NORMAL      == 2   \* TaskPriority.NORMAL
HIGH        == 3   \* TaskPriority.HIGH

PENDING   == "pending"
QUEUED    == "queued"
RUNNING   == "running"
COMPLETED == "completed"
FAILED    == "failed"
CANCELLED == "cancelled"
RETRYING  == "retrying"

TaskStatus   == {PENDING, QUEUED, RUNNING, COMPLETED, FAILED, CANCELLED, RETRYING}
TaskPriority == {LOW, NORMAL, HIGH}

\* what the registered body does when called: return, or raise
Bodies       == {"ok", "raise"}
\* max_retries values given to create_task (3 is the default)
RetryLimits  == {0, 1, 3}
TaskType     == "health_check"
\* self.task_registry, as far as the submissions go, and the task types a
\* caller passes: a registered one and one that was never registered
task_registry == {TaskType}
TaskTypes    == task_registry \cup {"no_such_type"}
\* an id that create_task never returns (the readings count from 1)
NoSuchId     == <<TaskType, 0>>
\* the seconds since metrics['last_reset'] that a call of get_metrics finds
SinceReset   == {30, 60}

VARIABLES
    ms,             \* int(time.time() * 1000) as create_task last read it, as a count of distinct readings
    same_ms,        \* the millisecond clock still shows that reading
    task,           \* the Task objects, in order of construction; scheduled_at is kept as
                    \* the seconds still to pass until it (0 once it has elapsed)
    tasks,          \* self.tasks: insertion-ordered dict id -> object, <<[k, v], ...>>
    task_queue,     \* self.task_queue: the heap array of the PriorityQueue
    running_tasks,  \* self.running_tasks: insertion-ordered dict id -> future
    future,         \* the futures submitted to self.executor, in order
    max_workers,    \* self.max_workers
    is_running,     \* self.is_running
    metrics,        \* self.metrics: the three counters of tasks and the stored rate
    shutdown,       \* the executor has been shut down
    loop_pc,        \* position of the _worker_loop thread of self.worker_thread
    orphans,        \* the _worker_loop threads alive that self.worker_thread no
                    \* longer refers to
    interval,       \* the seconds of the sleep that ended the last iteration of
                    \* _worker_loop (the normal interval before any)
    api,            \* position of the API thread
    calls,          \* history: number of calls served by the API thread
    last,           \* the call the API thread served last, the status of the task it
                    \* found, and what it returned
    lim             \* the bounds of the exploration, fixed by the initial state

clock == <<ms, same_ms>>
pool  == <<running_tasks, future>>
life  == <<max_workers, is_running, shutdown>>
loop  == <<loop_pc, orphans, interval>>
vars  == <<clock, task, tasks, task_queue, pool, life, metrics, loop, api, calls, last, lim>>

Idle == [op |-> "idle", o |-> 0, f |-> 0]

\* the bounds a behaviour is explored within
Bounds(ntasks, ncalls, ndispatch) ==
    [tasks |-> ntasks, calls |-> ncalls, dispatch |-> ndispatch]

\* TaskManager.__init__
Constructed ==
    /\ ms = 0
    /\ same_ms = FALSE
    /\ task = <<>>
    /\ tasks = <<>>
    /\ task_queue = <<>>
    /\ running_tasks = <<>>
    /\ future = <<>>
    /\ max_workers \in 1..MaxWorkers
    /\ is_running = FALSE
    /\ shutdown = FALSE
    /\ metrics = [total_tasks_created |-> 0, total_tasks_completed |-> 0,
                  total_tasks_failed |-> 0, tasks_per_minute |-> 0]
    /\ loop_pc = "stopped"
    /\ orphans = 0
    /\ interval = NormalInterval
    /\ api = Idle
    /\ calls = 0
    /\ last = [op |-> "none", arg |-> <<>>, ret |-> "None", found |-> "none"]

Init ==
    /\ Constructed
    /\ lim = Bounds(MaxTasks, MaxCalls, MaxDispatch)

\* ------------------------------------------------- insertion-ordered dicts
Keys(d) == {d[i].k : i \in 1..Len(d)}
Has(d, key) == key \in Keys(d)
Get(d, key) == d[CHOOSE i \in 1..Len(d) : d[i].k = key].v
\* d[key] = val: an existing key keeps its place
Put(d, key, val) ==
    IF Has(d, key)
    THEN [d EXCEPT ![CHOOSE i \in 1..Len(d) : d[i].k = key].v = val]
    ELSE Append(d, [k |-> key, v |-> val])
\* d.pop(key, None)
Pop(d, key) == SelectSeq(d, LAMBDA e : e.k # key)

\* a seeded fault: the comparison of __lt__ the other way round
LtReversed(a, b) == task[a].priority < task[b].priority

\* ---------------------------------------------------------------- the Task
\* Task.__lt__: "higher priority value = higher priority"
Lt(a, b) == task[a].priority > task[b].priority

\* ------------------------------------------- PriorityQueue (heapq) on Tasks
\* heapq._siftdown(heap, startpos, pos) with newitem = x, positions from 1
RECURSIVE SiftDown(_, _, _, _)
SiftDown(h, startpos, pos, x) ==
    IF pos > startpos /\ Lt(x, h[pos \div 2])
    THEN SiftDown([h EXCEPT ![pos] = h[pos \div 2]], startpos, pos \div 2, x)
    ELSE [h EXCEPT ![pos] = x]

\* heapq._siftup(heap, pos) with newitem = x: the smaller child moves up until
\* a leaf is hit, then x is sifted down into place
RECURSIVE SiftUp(_, _, _)
SiftUp(h, pos, x) ==
    LET childpos == 2 * pos
        rightpos == childpos + 1
        c == IF rightpos <= Len(h) /\ ~Lt(h[childpos], h[rightpos])
             THEN rightpos ELSE childpos
    IN  IF childpos <= Len(h)
        THEN SiftUp([h EXCEPT ![pos] = h[c]], c, x)
        ELSE SiftDown([h EXCEPT ![pos] = x], 1, pos, x)

\* PriorityQueue.put -> heappush
HeapPush(h, x) == SiftDown(Append(h, x), 1, Len(h) + 1, x)

\* PriorityQueue.get_nowait -> heappop: the item returned
HeapTop(h) == h[1]

\* PriorityQueue.get_nowait -> heappop: the heap left behind
HeapPop(h) ==
    LET lastelt == h[Len(h)]
        rest    == SubSeq(h, 1, Len(h) - 1)
    IN  IF rest = <<>> THEN <<>>
        ELSE SiftUp([rest EXCEPT ![1] = lastelt], 1, lastelt)

\* ------------------------------------------------------------ TaskManager
\* _dependencies_met(task), evaluated on task table tb and objects tk
DependenciesMet(tk, tb, o) ==
    \A dep_id \in tk[o].dependencies :
        /\ Has(tb, dep_id)
        /\ tk[Get(tb, dep_id)].status = COMPLETED

\* _queue_task(task): the pair <<objects, heap>> afterwards
QueueTask(st, o) ==
    << [st[1] EXCEPT ![o].status = QUEUED], HeapPush(st[2], o) >>

\* get_task(task_id): the object, or 0 for None
GetTask(task_id) == IF Has(tasks, task_id) THEN Get(tasks, task_id) ELSE 0

\* the objects of self.tasks.values(), in dict order
Values(tb) == [i \in 1..Len(tb) |-> tb[i].v]

\* _check_scheduled_tasks: the loop body for the entries i.. of the snapshot
\* list(self.tasks.values()), on st = <<objects, heap>>
ScheduledReady(tk, tb, o) ==
    /\ tk[o].status = PENDING
    /\ tk[o].scheduled_at <= 0
    /\ DependenciesMet(tk, tb, o)

RECURSIVE CheckScheduledFrom(_, _, _)
CheckScheduledFrom(i, snapshot, st) ==
    IF i > Len(snapshot) THEN st
    ELSE CheckScheduledFrom(i + 1, snapshot,
            IF ScheduledReady(st[1], tasks, snapshot[i])
            THEN QueueTask(st, snapshot[i]) ELSE st)

\* _check_dependent_tasks(completed_task_id): the loop body for entries i..
DependentReady(tk, tb, o, completed_task_id) ==
    /\ tk[o].status = PENDING
    /\ completed_task_id \in tk[o].dependencies
    /\ DependenciesMet(tk, tb, o)

RECURSIVE CheckDependentFrom(_, _, _, _)
CheckDependentFrom(i, snapshot, completed_task_id, st) ==
    IF i > Len(snapshot) THEN st
    ELSE CheckDependentFrom(i + 1, snapshot, completed_task_id,
            IF DependentReady(st[1], tasks, snapshot[i], completed_task_id)
            THEN QueueTask(st, snapshot[i]) ELSE st)

\* ------------------------------------------------------------- API thread
\* the status of the task that a call finds under the id it is given
Found(arg) == IF GetTask(arg) = 0 THEN "none" ELSE task[GetTask(arg)].status

\* the API thread takes up a call
\* the call name(arg); ret is what it returns if it returns in this step
Call(op, o, name, arg, ret) ==
    /\ api = Idle
    /\ calls < lim.calls
    /\ calls' = calls + 1
    /\ lim' = lim
    /\ api' = [op |-> op, o |-> o, f |-> 0]
    /\ last' = [op |-> name, arg |-> arg, ret |-> ret, found |-> Found(arg)]

\* the API thread moves on inside a call, or returns from it
Goto(op, ret) ==
    /\ api' = IF op = "idle" THEN Idle ELSE [api EXCEPT !.op = op]
    /\ last' = [last EXCEPT !.ret = ret]
    /\ calls' = calls
    /\ lim' = lim

\* a seeded fault: create_task takes any task type
RegisteredAny(task_type) == TRUE

\* create_task, line 188: the task type is in the registry
Registered(task_type) == task_type \in task_registry

\* create_task, lines 184-190: an unknown task type raises ValueError
CreateTaskRaise(task_type) ==
    /\ ~Registered(task_type)
    /\ Call("idle", 0, "create_task", <<task_type>>, "ValueError")
    /\ UNCHANGED <<metrics, clock, task, tasks, task_queue, pool, life, loop>>

\* create_task, lines 184-208: the id is built from the clock, the Task is
\* constructed PENDING and stored under its id
CreateTask(task_type, priority, sched, max_retries, dependencies, body, fresh) ==
    /\ Registered(task_type)
    /\ Len(task) < lim.tasks
    /\ Call("create", Len(task) + 1, "create_task", <<task_type>>, "pending")
    /\ LET reading == IF fresh \/ ~same_ms THEN ms + 1 ELSE ms
           task_id == <<task_type, reading>>
       IN  /\ ms' = reading
           /\ same_ms' = TRUE
           /\ task' = Append(task,
                  [id |-> task_id, priority |-> priority, status |-> PENDING,
                   scheduled_at |-> sched, retry_count |-> 0,
                   max_retries |-> max_retries, dependencies |-> dependencies,
                   body |-> body, result |-> "None", error |-> "None"])
           /\ tasks' = Put(tasks, task_id, Len(task) + 1)
    /\ metrics' = [metrics EXCEPT !.total_tasks_created = @ + 1]
    /\ UNCHANGED <<task_queue, pool, life, loop>>

\* create_task, lines 210-215: queue the task if its dependencies are met
CreateTaskQueue ==
    /\ api.op = "create"
    /\ LET st == IF DependenciesMet(task, tasks, api.o)
                 THEN QueueTask(<<task, task_queue>>, api.o)
                 ELSE <<task, task_queue>>
       IN  /\ task' = st[1]
           /\ task_queue' = st[2]
    /\ Goto("idle", "task_id")
    /\ UNCHANGED <<metrics, clock, tasks, pool, life, loop>>

\* ---------------------------------------------------------- retry_task
\* a seeded fault: retry_task allows one retry more
RetryRefusedLate(o) == task[o].retry_count > task[o].max_retries

\* retry_task, lines 253-255: no retries are left
RetryRefused(o) == task[o].retry_count >= task[o].max_retries

\* retry_task, lines 249-255: the object to retry, or 0 when it returns False
RetryTarget(task_id) ==
    LET o == GetTask(task_id)
    IN  IF o = 0 THEN 0
        ELSE IF task[o].status # FAILED THEN 0
        ELSE IF RetryRefused(o) THEN 0
        ELSE o

RECURSIVE Pow2(_)
Pow2(n) == IF n <= 0 THEN 1 ELSE 2 * Pow2(n - 1)

\* a seeded fault: the backoff doubles once too often
BackoffTwice(retry_delay, retry_count) == retry_delay * Pow2(retry_count)

\* the exponential backoff of line 262, from the incremented retry_count
Backoff(retry_delay, retry_count) == retry_delay * Pow2(retry_count - 1)

\* retry_task, lines 257-263, on object o
RetryMarked(tk, o) ==
    LET c == tk[o].retry_count + 1
    IN  [tk EXCEPT ![o].status = RETRYING,
                   ![o].retry_count = c,
                   ![o].error = "None",
                   ![o].scheduled_at = Backoff(RetryDelay, c)]

\* retry_task, lines 265-266, on object o: <<objects, heap>> afterwards
RetryQueued(o) ==
    IF DependenciesMet(task, tasks, o)
    THEN QueueTask(<<task, task_queue>>, o)
    ELSE <<task, task_queue>>

\* manual retry_task(task_id): the checks pass
RetryTask(task_id) ==
    /\ RetryTarget(task_id) # 0
    /\ Call("retry_mark", RetryTarget(task_id), "retry_task", task_id, "pending")
    /\ UNCHANGED <<metrics, clock, task, tasks, task_queue, pool, life, loop>>

\* retry_task, lines 249-255: one of the checks fails, the call returns False
RetryTaskFalse(task_id) ==
    /\ RetryTarget(task_id) = 0
    /\ Call("idle", 0, "retry_task", task_id, "False")
    /\ UNCHANGED <<metrics, clock, task, tasks, task_queue, pool, life, loop>>

RetryTaskMark ==
    /\ api.op = "retry_mark"
    /\ task' = RetryMarked(task, api.o)
    /\ Goto("retry_queue", "pending")
    /\ UNCHANGED <<metrics, clock, tasks, task_queue, pool, life, loop>>

RetryTaskQueue ==
    /\ api.op = "retry_queue"
    /\ task' = RetryQueued(api.o)[1]
    /\ task_queue' = RetryQueued(api.o)[2]
    /\ Goto("idle", "True")
    /\ UNCHANGED <<metrics, clock, tasks, pool, life, loop>>

\* ---------------------------------------------------------- cancel_task
\* Future.done()
Done(f) == future[f].st \in {"finished", "cancelled"}

\* Future.cancel(): succeeds unless the future is running or finished
Cancellable(f) == future[f].st \in {"pending", "cancelled"}

\* a seeded fault: cancel_task takes a COMPLETED task for one that waits
CancelPendingOrCompleted(o) == task[o].status \in {PENDING, QUEUED, COMPLETED}

\* cancel_task, line 232: the task has not started
CancelPending(o) == task[o].status \in {PENDING, QUEUED}

\* cancel_task, lines 236-239: the task is RUNNING and its future is cancelled
CancelFuture(task_id) ==
    /\ task[GetTask(task_id)].status = RUNNING
    /\ Has(running_tasks, task_id)
    /\ Cancellable(Get(running_tasks, task_id))

\* cancel_task, lines 228-232: a PENDING or QUEUED task is read
CancelTask(task_id) ==
    /\ GetTask(task_id) # 0
    /\ CancelPending(GetTask(task_id))
    /\ Call("cancel_write", GetTask(task_id), "cancel_task", task_id, "pending")
    /\ UNCHANGED <<metrics, clock, task, tasks, task_queue, pool, life, loop>>

\* cancel_task, lines 233-235
CancelTaskWrite ==
    /\ api.op = "cancel_write"
    /\ task' = [task EXCEPT ![api.o].status = CANCELLED]
    /\ Goto("idle", "True")
    /\ UNCHANGED <<metrics, clock, tasks, task_queue, pool, life, loop>>

\* cancel_task, lines 236-239: a RUNNING task is read and its future cancelled
CancelRunning(task_id) ==
    /\ GetTask(task_id) # 0
    /\ ~CancelPending(GetTask(task_id))
    /\ CancelFuture(task_id)
    /\ Call("cancel_running", GetTask(task_id), "cancel_task", task_id, "pending")
    /\ future' = [future EXCEPT ![Get(running_tasks, task_id)].st = "cancelled"]
    /\ UNCHANGED <<metrics, clock, task, tasks, task_queue, running_tasks, life, loop>>

\* cancel_task, lines 240-243
CancelRunningWrite ==
    /\ api.op = "cancel_running"
    /\ task' = [task EXCEPT ![api.o].status = CANCELLED]
    /\ running_tasks' = Pop(running_tasks, task[api.o].id)
    /\ Goto("idle", "True")
    /\ UNCHANGED <<metrics, clock, tasks, task_queue, future, life, loop>>

\* cancel_task, lines 229-230 and 245: no such task, or a task that is neither
\* waiting nor cancellable: the call returns False
CancelTaskFalse(task_id) ==
    /\ IF GetTask(task_id) = 0 THEN TRUE
       ELSE ~CancelPending(GetTask(task_id)) /\ ~CancelFuture(task_id)
    /\ Call("idle", 0, "cancel_task", task_id, "False")
    /\ UNCHANGED <<metrics, clock, task, tasks, task_queue, pool, life, loop>>

\* bulk_operations, operation "delete", on one task (lines 447-452)
DeleteTask(task_id) ==
    /\ GetTask(task_id) # 0
    /\ task[GetTask(task_id)].status \notin {RUNNING, QUEUED}
    /\ Call("idle", 0, "delete", task_id, "True")
    /\ tasks' = Pop(tasks, task_id)
    /\ UNCHANGED <<metrics, clock, task, task_queue, pool, life, loop>>

\* ---------------------------------------------------------- get_metrics
\* get_metrics, lines 293-297: the rate over the time since the last reset
TasksPerMinute(completed, time_diff) == (completed * 60) \div time_diff

\* get_metrics, lines 291-308: the rate is stored in self.metrics, then the
\* snapshot is built and returned (execution times are not modelled, and with
\* them the stored average of lines 299-300)
GetMetrics ==
    /\ Call("idle", 0, "get_metrics", <<>>, "snapshot")
    /\ \E time_diff \in SinceReset :
           metrics' = [metrics EXCEPT !.tasks_per_minute =
                          TasksPerMinute(metrics.total_tasks_completed, time_diff)]
    /\ UNCHANGED <<clock, task, tasks, task_queue, pool, life, loop>>

\* get_metrics, line 307: success_rate of the snapshot
SuccessRate(m) ==
    (m.total_tasks_completed * 100)
        \div (IF m.total_tasks_created > 1 THEN m.total_tasks_created ELSE 1)

\* reset_metrics, lines 310-320: self.metrics is bound to a new dict; a pool
\* thread inside `+= 1` of line 398 still holds the old one
ResetMetrics ==
    /\ Call("idle", 0, "reset_metrics", <<>>, "None")
    /\ metrics' = [total_tasks_created |-> 0, total_tasks_completed |-> 0,
                   total_tasks_failed |-> 0, tasks_per_minute |-> 0]
    /\ future' = [f \in 1..Len(future) |->
                     IF future[f].pc = "count"
                     THEN [future[f] EXCEPT !.stale = TRUE] ELSE future[f]]
    /\ UNCHANGED <<clock, task, tasks, task_queue, running_tasks, life, loop>>

\* ------------------------------------------------------- start and stop
\* start(): the loop thread is created when the manager is not running
Start ==
    /\ ~is_running
    /\ loop_pc = "stopped"
    /\ Call("idle", 0, "start", <<>>, "None")
    /\ is_running' = TRUE
    /\ loop_pc' = "loop"
    /\ interval' = NormalInterval
    /\ UNCHANGED <<metrics, clock, task, tasks, task_queue, pool, max_workers, shutdown, orphans>>

\* start() from a second request thread while the API thread is in stop() and
\* waits in join (line 149): is_running is false, so a new loop thread is
\* created; the thread that is being joined, if it has not ended yet, finds
\* is_running true again and goes on
StartWhileStopping ==
    /\ api.op = "stop_join"
    /\ ~is_running
    /\ is_running' = TRUE
    /\ orphans' = IF loop_pc = "loop" THEN orphans + 1 ELSE orphans
    /\ loop_pc' = "loop"
    /\ interval' = NormalInterval
    /\ api' = [api EXCEPT !.f = 1]
    /\ UNCHANGED <<metrics, clock, task, tasks, task_queue, pool, max_workers, shutdown,
                   calls, last, lim>>

\* stop(), line 147 (the route calls it only while is_running)
Stop ==
    /\ is_running
    /\ Call("stop_join", 0, "stop", <<>>, "pending")
    /\ is_running' = FALSE
    /\ UNCHANGED <<metrics, clock, task, tasks, task_queue, pool, max_workers, shutdown, loop>>

\* stop(), lines 148-150: the loop thread is joined, then the executor is
\* shut down: submit raises from here on.  join returns when the thread it
\* was called on has ended, or after its timeout of 10 seconds, which only a
\* thread that a new start() keeps alive outlasts (api.f = 1)
StopJoin ==
    /\ api.op = "stop_join"
    /\ IF api.f = 0 THEN loop_pc = "stopped" ELSE TRUE
    /\ shutdown' = TRUE
    /\ Goto("stop_wait", "pending")
    /\ UNCHANGED <<metrics, clock, task, tasks, task_queue, pool, max_workers, is_running, loop>>

\* stop(), line 150: shutdown(wait=True) returns when every future is done
StopReturn ==
    /\ api.op = "stop_wait"
    /\ \A f \in 1..Len(future) : Done(f)
    /\ Goto("idle", "None")
    /\ UNCHANGED <<metrics, clock, task, tasks, task_queue, pool, life, loop>>

\* ------------------------------------------------- the coordinating loop
\* _worker_loop, line 339: the loop ends when is_running is false
LoopExit ==
    /\ loop_pc = "loop"
    /\ ~is_running
    /\ loop_pc' = "stopped"
    /\ UNCHANGED <<metrics, clock, task, tasks, task_queue, pool, life, orphans, interval,
                   api, calls, last, lim>>

\* _worker_loop, line 339, in a thread that self.worker_thread no longer
\* refers to
OrphanExit ==
    /\ orphans > 0
    /\ ~is_running
    /\ orphans' = orphans - 1
    /\ UNCHANGED <<metrics, clock, task, tasks, task_queue, pool, life, loop_pc, interval,
                   api, calls, last, lim>>

\* some _worker_loop thread is alive
LoopAlive == loop_pc = "loop" \/ orphans > 0

\* _worker_loop, line 345: the condition of the dispatch
MayDispatch(queue) == queue # <<>> /\ Len(running_tasks) < max_workers

\* a seeded fault: finished futures are never removed from running_tasks
CheckCompletedNone(rt, fut) == rt

\* _check_completed_tasks on the dict rt: the entries whose future is done go
CheckCompleted(rt, fut) ==
    SelectSeq(rt, LAMBDA e : fut[e.v].st \notin {"finished", "cancelled"})

\* _execute_task, lines 377-378: the task is marked RUNNING
MarkedRunning(tk, o) == [tk EXCEPT ![o].status = RUNNING]

\* one iteration of _worker_loop, lines 339-353, when submit does not raise:
\* the scan, at most one dispatch, the reaping of finished futures, the sleep
Tick ==
    /\ LoopAlive
    /\ is_running
    /\ interval' = NormalInterval
    /\ LET st  == CheckScheduledFrom(1, Values(tasks), <<task, task_queue>>)
           o   == HeapTop(st[2])
           fut == Append(future, [o |-> o, st |-> "pending", pc |-> "body", rt |-> 0, n |-> 0,
                                  stale |-> FALSE])
       IN  IF MayDispatch(st[2])
           THEN /\ ~shutdown
                /\ Len(future) < lim.dispatch
                /\ task' = MarkedRunning(st[1], o)
                /\ task_queue' = HeapPop(st[2])
                /\ future' = fut
                /\ running_tasks' =
                       CheckCompleted(Put(running_tasks, task[o].id, Len(fut)), fut)
           ELSE /\ task' = st[1]
                /\ task_queue' = st[2]
                /\ future' = future
                /\ running_tasks' = CheckCompleted(running_tasks, future)
    /\ UNCHANGED <<metrics, clock, tasks, life, loop_pc, orphans, api, calls, last, lim>>

\* a seeded fault: an exception ends the loop thread
LoopEndsOnFault == "stopped"

\* _worker_loop, lines 355-357: the except clause logs, sleeps, and the while
\* loop goes on
LoopAfterFault == "loop"

\* one iteration of _worker_loop after executor.shutdown: the task is marked
\* RUNNING, submit raises RuntimeError, and the except clause of line 355 ends
\* the iteration before _check_completed_tasks
TickFault ==
    /\ LoopAlive
    /\ loop_pc' = IF loop_pc = "loop" THEN LoopAfterFault ELSE loop_pc
    /\ interval' = ErrorInterval
    /\ is_running
    /\ LET st == CheckScheduledFrom(1, Values(tasks), <<task, task_queue>>)
       IN  /\ MayDispatch(st[2])
           /\ shutdown
           /\ task' = MarkedRunning(st[1], HeapTop(st[2]))
           /\ task_queue' = HeapPop(st[2])
    /\ UNCHANGED <<metrics, clock, tasks, pool, life, orphans, api, calls, last, lim>>

\* ------------------------------------------------------ the pool threads
\* a pool thread takes the oldest pending work item
RunFuture(f) ==
    /\ future[f].st = "pending"
    /\ \A g \in 1..(f - 1) : future[g].st # "pending"
    /\ Cardinality({g \in 1..Len(future) : future[g].st = "running"}) < max_workers
    /\ future' = [future EXCEPT ![f].st = "running"]
    /\ UNCHANGED <<metrics, clock, task, tasks, task_queue, running_tasks, life, loop, api, calls, last, lim>>

\* _run_task, lines 390-398: the body returns, its result is recorded on the
\* task, the task is COMPLETED, and
\* the thread reads total_tasks_completed to add one to it
RunTaskCompleted(f) ==
    /\ future[f].st = "running"
    /\ future[f].pc = "body"
    /\ task[future[f].o].body = "ok"
    /\ task' = [task EXCEPT ![future[f].o].result = "result",
                            ![future[f].o].status = COMPLETED]
    /\ future' = [future EXCEPT ![f].pc = "count",
                                ![f].n = metrics.total_tasks_completed]
    /\ UNCHANGED <<metrics, clock, tasks, task_queue, running_tasks, life, loop, api, calls, last, lim>>

\* _run_task, lines 398-405: the sum is stored in the dict it was read from
\* (which reset_metrics may have replaced since), the dependent tasks are
\* checked and the body's result is returned
RunTaskCounted(f) ==
    /\ future[f].pc = "count"
    /\ metrics' = IF future[f].stale THEN metrics
                  ELSE [metrics EXCEPT !.total_tasks_completed = future[f].n + 1]
    /\ LET st == CheckDependentFrom(1, Values(tasks), task[future[f].o].id,
                     <<task, task_queue>>)
       IN  /\ task' = st[1]
           /\ task_queue' = st[2]
    /\ future' = [future EXCEPT ![f].st = "finished", ![f].pc = "returned"]
    /\ UNCHANGED <<clock, tasks, running_tasks, life, loop, api, calls, last, lim>>

\* _run_task, lines 407-411: the body raises
RunTaskFailed(f) ==
    /\ future[f].st = "running"
    /\ future[f].pc = "body"
    /\ task[future[f].o].body = "raise"
    /\ task' = [task EXCEPT ![future[f].o].error = "error",
                            ![future[f].o].status = FAILED]
    /\ metrics' = [metrics EXCEPT !.total_tasks_failed = @ + 1]
    /\ future' = [future EXCEPT ![f].pc = "except"]
    /\ UNCHANGED <<clock, tasks, task_queue, running_tasks, life, loop, api, calls, last, lim>>

\* a seeded fault: the automatic retry gives up one retry early
RetriesAvailableFewer(o) == task[o].retry_count + 1 < task[o].max_retries

\* _run_task, line 417: retries are available
RetriesAvailable(o) == task[o].retry_count < task[o].max_retries

\* _run_task, lines 417-418 with the checks of retry_task: the retry goes ahead
AutoRetry(f) ==
    /\ future[f].pc = "except"
    /\ RetriesAvailable(future[f].o)
    /\ RetryTarget(task[future[f].o].id) # 0
    /\ future' = [future EXCEPT ![f].pc = "retry_mark",
                                ![f].rt = RetryTarget(task[future[f].o].id)]
    /\ UNCHANGED <<metrics, clock, task, tasks, task_queue, running_tasks, life, loop, api, calls, last, lim>>

\* _run_task, lines 417-420: no retry (none left, or retry_task returns False)
NoAutoRetry(f) ==
    /\ future[f].pc = "except"
    /\ ~(RetriesAvailable(future[f].o) /\ RetryTarget(task[future[f].o].id) # 0)
    /\ future' = [future EXCEPT ![f].st = "finished", ![f].pc = "raised"]
    /\ UNCHANGED <<metrics, clock, task, tasks, task_queue, running_tasks, life, loop, api, calls, last, lim>>

\* retry_task called from _run_task, lines 257-263
AutoRetryMark(f) ==
    /\ future[f].pc = "retry_mark"
    /\ task' = RetryMarked(task, future[f].rt)
    /\ future' = [future EXCEPT ![f].pc = "retry_queue"]
    /\ UNCHANGED <<metrics, clock, tasks, task_queue, running_tasks, life, loop, api, calls, last, lim>>

\* retry_task called from _run_task, lines 265-269, and the raise of line 420
AutoRetryQueue(f) ==
    /\ future[f].pc = "retry_queue"
    /\ task' = RetryQueued(future[f].rt)[1]
    /\ task_queue' = RetryQueued(future[f].rt)[2]
    /\ future' = [future EXCEPT ![f].st = "finished", ![f].pc = "raised"]
    /\ UNCHANGED <<metrics, clock, tasks, running_tasks, life, loop, api, calls, last, lim>>

\* ----------------------------------------------------------------- time
\* RetryDelay seconds pass: every scheduled_at comes that much closer
Elapsed(t) == [t EXCEPT !.scheduled_at = IF @ > RetryDelay THEN @ - RetryDelay ELSE 0]

Advance ==
    /\ task' = [o \in 1..Len(task) |-> Elapsed(task[o])]
    /\ same_ms' = FALSE
    /\ UNCHANGED <<metrics, ms, tasks, task_queue, pool, life, loop, api, calls, last, lim>>

\* ------------------------------------------------------------ behaviours
\* the ids a caller can name: those of the table, and one that names no task
Ids == Keys(tasks) \cup {NoSuchId}

\* what a caller passes to create_task: a priority, the delay of scheduled_at
\* after the call, max_retries, the dependencies and the registered body
Input(p, s, m, d, b) ==
    [priority |-> p, delay |-> s, max_retries |-> m, dependencies |-> d, body |-> b]

Submit(inputs) ==
    \E i \in inputs, task_type \in TaskTypes, fresh \in BOOLEAN :
        CreateTask(task_type, i.priority, i.delay, i.max_retries, i.dependencies,
                   i.body, fresh)

\* every step but the submission of a task
Others ==
    \/ \E task_type \in TaskTypes : CreateTaskRaise(task_type)
    \/ CreateTaskQueue
    \/ \E id \in Ids : RetryTask(id)
    \/ \E id \in Ids : RetryTaskFalse(id)
    \/ RetryTaskMark
    \/ RetryTaskQueue
    \/ \E id \in Ids : CancelTask(id)
    \/ \E id \in Ids : CancelTaskFalse(id)
    \/ CancelTaskWrite
    \/ \E id \in Ids : CancelRunning(id)
    \/ CancelRunningWrite
    \/ \E id \in Ids : DeleteTask(id)
    \/ GetMetrics
    \/ Start
    \/ Stop
    \/ StopJoin
    \/ StopReturn
    \/ LoopExit
    \/ Tick
    \/ TickFault
    \/ \E f \in 1..Len(future) :
          \/ RunFuture(f)
          \/ RunTaskCompleted(f)
          \/ RunTaskCounted(f)
          \/ RunTaskFailed(f)
          \/ AutoRetry(f)
          \/ NoAutoRetry(f)
          \/ AutoRetryMark(f)
          \/ AutoRetryQueue(f)
    \/ Advance

\* the submissions of the general specification: a task that fails and may be
\* retried once, a task scheduled for later, a task that depends on the first
\* task submitted, and a task that depends on no task of the table
TaskInputs ==
    { Input(NORMAL, 0, 1, {}, "raise"),
      Input(NORMAL, RetryDelay, 0, {}, "ok"),
      Input(HIGH, 0, 0, {<<TaskType, 1>>}, "ok") }

Next ==
    \/ Submit(TaskInputs)
    \/ Others

Spec == Init /\ [][Next]_vars

\* ------------------------------------------------------------ properties
\* the objects the task table holds
InTable(o) == \E i \in 1..Len(tasks) : tasks[i].v = o

\* the edges of the task state machine as specified
Edges ==
    { <<PENDING, QUEUED>>, <<QUEUED, RUNNING>>, <<RUNNING, COMPLETED>>,
      <<RUNNING, FAILED>>, <<FAILED, RETRYING>>, <<RETRYING, PENDING>>,
      <<PENDING, CANCELLED>>, <<QUEUED, CANCELLED>>, <<RUNNING, CANCELLED>> }

\* one iteration of the loop promotes and dispatches a task without a pause:
\* Pending -> Queued -> Running is then seen as one change
TickEdges == { <<PENDING, RUNNING>> }

\* C1: every status change of every task is one of the specified edges (a
\* promotion and dispatch within one loop iteration counting as two of them)
C1_OnlySpecifiedEdges ==
    [][\A o \in 1..Len(task) :
          task'[o].status # task[o].status =>
              <<task[o].status, task'[o].status>> \in Edges \cup TickEdges]_vars

\* C2: when a task is dispatched (it becomes RUNNING), every id of its
\* dependencies names a task of the table that is COMPLETED
C2_DispatchAfterDependencies ==
    [][\A o \in 1..Len(task) :
          (task[o].status # RUNNING /\ task'[o].status = RUNNING) =>
              DependenciesMet(task, tasks, o)]_vars

\* C3: at most max_workers tasks of the table are RUNNING
C3_AtMostNRunning ==
    Cardinality({o \in 1..Len(task) : InTable(o) /\ task[o].status = RUNNING})
        <= max_workers

\* C6: a task that has not been retried is QUEUED only once its scheduled_at
\* has elapsed
C6_PromotedWhenDue ==
    \A o \in 1..Len(task) :
        (task[o].status = QUEUED /\ task[o].retry_count = 0) =>
            task[o].scheduled_at = 0

\* ------------------------------------------- the queue: SpecQueue
\* one worker and three tasks of the three priorities, so that the heap holds
\* enough tasks for its order to matter
QueueInputs ==
    { Input(LOW, 0, 0, {}, "ok"),
      Input(NORMAL, 0, 0, {}, "ok"),
      Input(HIGH, 0, 0, {}, "ok"),
      Input(NORMAL, 0, 1, {}, "raise") }

InitQueue ==
    /\ Constructed
    /\ max_workers = 1
    /\ lim = Bounds(QueueTasks, QueueCalls, QueueDispatch)

NextQueue ==
    \/ Submit(QueueInputs)
    \/ Others

SpecQueue == InitQueue /\ [][NextQueue]_vars

\* the objects of a heap
InQueue(queue) == {queue[i] : i \in 1..Len(queue)}

\* C4: the task the loop dispatches has a priority at least that of every task
\* the dispatch leaves in the queue
C4_DispatchHighestPriority ==
    [][\A o \in 1..Len(task) :
          (task[o].status # RUNNING /\ task'[o].status = RUNNING) =>
              \A q \in InQueue(task_queue') :
                  task[o].priority >= task[q].priority]_vars

\* C4, its case: tasks submitted as Low, High, Normal to one worker and
\* dispatched as High, Normal, Low
C4_LowHighNormalDispatched ==
    /\ max_workers = 1
    /\ Len(task) = 3 /\ Len(tasks) = 3
    /\ task[1].priority = LOW /\ task[2].priority = HIGH /\ task[3].priority = NORMAL
    /\ Len(future) = 3
    /\ future[1].o = 2 /\ future[2].o = 3 /\ future[3].o = 1

\* C5: a task is not dispatched while a task of the same priority submitted
\* before it waits in the queue (both in the table, neither of them retried)
C5_FifoAmongEqualPriority ==
    [][\A a, b \in 1..Len(task) :
          (/\ a < b
           /\ InTable(a) /\ InTable(b)
           /\ task[a].priority = task[b].priority
           /\ task[a].retry_count = 0 /\ task[b].retry_count = 0
           /\ task[a].status = QUEUED /\ task[b].status = QUEUED
           /\ a \in InQueue(task_queue) /\ b \in InQueue(task_queue))
          => ~(task'[b].status = RUNNING /\ task'[a].status = QUEUED)]_vars

\* C7: a retried task is queued or dispatched only once the scheduled_at of
\* its backoff has elapsed
C7_RetryAfterBackoff ==
    \A o \in 1..Len(task) :
        (task[o].retry_count >= 1 /\ task[o].status \in {QUEUED, RUNNING}) =>
            task[o].scheduled_at = 0

\* ----------------------------------------- the retries: SpecRetry
\* one worker, a task that always fails with max_retries = 3, and dispatches
\* enough for all its executions
RetryInputs ==
    { Input(NORMAL, 0, 3, {}, "raise"),
      Input(NORMAL, 0, 0, {}, "ok") }

InitRetry ==
    /\ Constructed
    /\ max_workers = 1
    /\ lim = Bounds(RetryTasks, RetryCalls, RetryDispatch)

NextRetry ==
    \/ Submit(RetryInputs)
    \/ Others

SpecRetry == InitRetry /\ [][NextRetry]_vars

\* the executions of object o that have failed
NFail(o) ==
    Cardinality({f \in 1..Len(future) :
        future[f].o = o /\ future[f].pc \in {"except", "retry_mark", "retry_queue", "raised"}})

\* no thread is deciding on, or carrying out, a retry of object o
AtRest(o) ==
    /\ \A f \in 1..Len(future) :
          future[f].pc \in {"except", "retry_mark", "retry_queue"} =>
              o \notin {future[f].o, future[f].rt}
    /\ ~(api.op \in {"retry_mark", "retry_queue"} /\ api.o = o)

C9_RetryCountWithinLimit ==
    \A o \in 1..Len(task) : task[o].retry_count <= task[o].max_retries

\* C10: every failure of a task is retried at most once, by the worker or by
\* a caller: retry_count is at most the number of failed executions
C10_OneRetryPerFailure ==
    \A o \in 1..Len(task) : task[o].retry_count <= NFail(o)

\* ------------------------------------------- the calls and what they return
\* in this step the API thread takes up the call op(arg)
Taken(op, arg) == calls' = calls + 1 /\ last'.op = op /\ last'.arg = arg

\* C11: cancel_task on a COMPLETED task returns False and leaves it COMPLETED;
\* on a PENDING task it goes on to set it CANCELLED and returns True; on a
\* task that is CANCELLED (a repeated call) it returns False
C11_CancelReturns ==
    [][\A id \in Keys(tasks) :
          LET o == Get(tasks, id)
          IN  /\ (Taken("cancel_task", id) /\ task[o].status = COMPLETED) =>
                     (last'.ret = "False" /\ task'[o].status = COMPLETED)
              /\ (Taken("cancel_task", id) /\ task[o].status = PENDING) =>
                     (api'.op = "cancel_write" /\ api'.o = o)
              /\ (api.op = "cancel_write" /\ api.o = o /\ api' = Idle) =>
                     (last'.ret = "True" /\ task'[o].status = CANCELLED)
              /\ (Taken("cancel_task", id) /\ task[o].status = CANCELLED) =>
                     (last'.ret = "False" /\ task'[o].status = CANCELLED)]_vars

\* C11, its case: a task that waited for its dependencies and was never
\* queued is CANCELLED, and the repeated cancel_task on it has returned False
C11_SecondCancelFalse ==
    \E id \in Keys(tasks) :
        /\ last = [op |-> "cancel_task", arg |-> id, ret |-> "False",
                   found |-> CANCELLED]
        /\ task[Get(tasks, id)].status = CANCELLED
        /\ task[Get(tasks, id)].dependencies # {}
        /\ future = <<>>

\* C12: a task that is CANCELLED stays CANCELLED
C12_CancelledIsTerminal ==
    [][\A o \in 1..Len(task) :
          task[o].status = CANCELLED => task'[o].status = CANCELLED]_vars

\* C13: a task that is COMPLETED stays COMPLETED
C13_CompletedIsTerminal ==
    [][\A o \in 1..Len(task) :
          task[o].status = COMPLETED => task'[o].status = COMPLETED]_vars

\* one of the dependencies of object o names no task of the table
MissingDependency(o) == \E d \in task[o].dependencies : ~Has(tasks, d)

\* C14: a task of the table with a dependency that names no task of the table
\* is neither promoted nor dispatched
C14_MissingDependencyBlocks ==
    [][\A o \in 1..Len(task) :
          (InTable(o) /\ MissingDependency(o) /\ task'[o].status # task[o].status) =>
              task'[o].status \notin {QUEUED, RUNNING}]_vars

\* C15: no two Task objects have the same id
C15_IdsUnique ==
    \A a, b \in 1..Len(task) : a # b => task[a].id # task[b].id

\* C16: create_task with a task type that is not registered raises ValueError
\* and leaves the table, the queue and the counters as they are
C16_UnknownTypeChangesNothing ==
    [][\A task_type \in TaskTypes \ task_registry :
          Taken("create_task", <<task_type>>) =>
              /\ last'.ret = "ValueError"
              /\ UNCHANGED <<task, tasks, task_queue, metrics>>]_vars

\* C16, its case: a task is in the table and a create_task with an unknown
\* type has raised
C16_UnknownTypeRaised ==
    /\ last.op = "create_task"
    /\ last.arg[1] \notin task_registry
    /\ last.ret = "ValueError"
    /\ tasks # <<>>

\* C17: cancel_task and retry_task on an id of no task, cancel_task on a
\* COMPLETED, FAILED or CANCELLED task, and retry_task on a task that is not
\* FAILED or has no retries left return False and leave the tasks and the
\* queue as they are
C17_RefusedCallsChangeNothing ==
    [][\A id \in Ids :
          LET o == GetTask(id)
          IN  /\ (/\ Taken("cancel_task", id)
                  /\ (o = 0 \/ task[o].status \in {COMPLETED, FAILED, CANCELLED}))
                 => (last'.ret = "False" /\ UNCHANGED <<task, task_queue>>)
              /\ (/\ Taken("retry_task", id)
                  /\ (\/ o = 0
                      \/ task[o].status # FAILED
                      \/ task[o].retry_count >= task[o].max_retries))
                 => (last'.ret = "False" /\ UNCHANGED <<task, task_queue>>)]_vars

\* C17, its case: retry_task has returned False for a FAILED task that has
\* used up its retries
C17_RetryRefusedAtLimit ==
    \E id \in Keys(tasks) :
        /\ last = [op |-> "retry_task", arg |-> id, ret |-> "False",
                   found |-> FAILED]
        /\ task[Get(tasks, id)].status = FAILED
        /\ task[Get(tasks, id)].max_retries >= 1
        /\ task[Get(tasks, id)].retry_count = task[Get(tasks, id)].max_retries

\* C18: while is_running the loop thread stays in its loop, whatever faults
\* the bodies or the dispatch raised, and create_task of a registered type
\* returns the id: no fault of the task reaches the caller
C18_LoopSurvivesFaults ==
    /\ is_running => loop_pc = "loop"
    /\ (last.op = "create_task" /\ last.arg[1] \in task_registry) =>
           last.ret \in {"pending", "task_id"}

\* C18, its case: a body has raised, the dispatch of a task has raised after
\* the executor was shut down, and the loop goes on
C18_LoopAfterFaults ==
    /\ is_running /\ loop_pc = "loop" /\ shutdown
    /\ \E f \in 1..Len(future) : future[f].pc = "raised"
    /\ \E o \in 1..Len(task) :
          /\ task[o].status = RUNNING
          /\ \A f \in 1..Len(future) : future[f].o = o => Done(f)

\* the executions that have set their task COMPLETED
NCompleted ==
    Cardinality({f \in 1..Len(future) : future[f].pc \in {"count", "returned"}})

\* C19: total_tasks_completed is the number of completions so far
C19_CompletedCounterExact ==
    metrics.total_tasks_completed = NCompleted

\* the failed executions that no automatic retry follows, or whose retry is
\* not yet decided
NTerminalFailures ==
    Cardinality({f \in 1..Len(future) :
        \/ future[f].pc = "except"
        \/ future[f].pc = "raised" /\ future[f].rt = 0})

\* C20: total_tasks_failed counts only the failures that no automatic retry
\* follows
C20_FailedCounterTerminalOnly ==
    metrics.total_tasks_failed = NTerminalFailures

\* ------------------------------------------------- the metrics snapshot
\* C21: get_metrics is read-only: a call of it leaves the task table, the
\* tasks, the queue, running_tasks and every stored metric field as they were
C21_GetMetricsReadOnly ==
    [][Taken("get_metrics", <<>>) =>
          UNCHANGED <<task, tasks, task_queue, running_tasks, metrics>>]_vars

\* ------------------------------------------------------------------ stop
\* stop() has returned and the API thread has served no call since
StopReturned == last.op = "stop" /\ last.ret = "None"

\* C22: when stop() returns, no task body is still executing, no task is left
\* in Running status, and the loop promotes and dispatches no more
C22_StopDrains ==
    StopReturned =>
        /\ \A f \in 1..Len(future) : future[f].st \notin {"pending", "running"}
        /\ \A o \in 1..Len(task) : InTable(o) => task[o].status # RUNNING
        /\ loop_pc = "stopped"

\* ---------------------------------------------- cancel_task while Running
\* cancel_task(id) found the task RUNNING and has returned ret, and the API
\* thread has served no call since
CancelledRunning(ret) ==
    last.op = "cancel_task" /\ last.found = RUNNING /\ last.ret = ret

\* C23: cancel_task on a Running task is best-effort: either it returns true
\* and the task is Cancelled and stays so, or the body is not interrupted and
\* then the result of the body is not recorded on the task
C23_CancelRunningBestEffort ==
    [][/\ CancelledRunning("True")' =>
              task'[GetTask(last.arg)'].status = CANCELLED
       /\ CancelledRunning("False") /\ CancelledRunning("False")' =>
              task'[GetTask(last.arg)].result = task[GetTask(last.arg)].result]_vars

\* ------------------------------------------------------------ submission
\* C24: every task is Pending when create_task returns: the submission does
\* not itself make the transition Pending -> Queued
C24_PendingOnReturn ==
    [][api.op = "create" /\ api' = Idle => task'[api.o].status = PENDING]_vars

\* the places of the priority queue that hold the object o
Places(o) == {i \in 1..Len(task_queue) : task_queue[i] = o}

\* C25: no task is promoted twice: under any interleaving of the loop's scan,
\* a worker's dependent re-evaluation, create_task and retry_task, a task is
\* in the priority queue at most once at a time
C25_NoDoublePromotion ==
    \A o \in 1..Len(task) : Cardinality(Places(o)) <= 1

\* ----------------------------------------------------- the duties of a tick
\* len(self.running_tasks) at the end of the dispatch duty of the tick that
\* starts in this state, lines 342-347, before _check_completed_tasks
Occupied ==
    LET st == CheckScheduledFrom(1, Values(tasks), <<task, task_queue>>)
    IN  IF MayDispatch(st[2])
        THEN Len(Put(running_tasks, task[HeapTop(st[2])].id, Len(future) + 1))
        ELSE Len(running_tasks)

\* C26: the dispatch duty of a tick repeats until capacity or work runs out:
\* when it ends, the priority queue is empty or every worker slot is occupied
C26_DispatchUntilFull ==
    [][Tick => task_queue' = <<>> \/ Occupied = max_workers]_vars

\* C27: a fault raised while a duty of a tick processes one task does not
\* abort the tick: the later duties of the same tick are still performed, so
\* the finished workers are reclaimed by the tick in which a dispatch fails
C27_FaultKeepsTick ==
    [][TickFault => running_tasks' = CheckCompleted(running_tasks, future)]_vars

\* ------------------------------------------- promotion after a completion
\* the worker of future f has set its task COMPLETED and has not yet checked
\* the dependent tasks, and o is a task that this check is to promote
AwaitsPromotion(f, o) ==
    /\ future[f].pc = "count"
    /\ InTable(o)
    /\ DependentReady(task, tasks, o, task[future[f].o].id)

\* C28: when a task completes, the Pending tasks that depend on it and have
\* all their dependencies Completed are promoted as part of handling that
\* completion: no tick of the loop runs before they are
C28_PromotedBeforeNextTick ==
    [][Tick => \A f \in 1..Len(future), o \in 1..Len(task) :
                   ~AwaitsPromotion(f, o)]_vars

\* ------------------------------------------------- the effect of a retry
\* C29: a retry that takes effect on a Failed task with retry_count = c <
\* max_retries sets retry_count to c + 1, clears error and sets scheduled_at
\* to now + retry_delay * 2^c; but for the status, nothing else about the
\* task changes
C29_RetryEffect ==
    [][\A o \in 1..Len(task) :
          /\ task[o].status = FAILED
          /\ task[o].retry_count < task[o].max_retries
          /\ task'[o].status = RETRYING
          => task'[o] = [task[o] EXCEPT
                            !.status = RETRYING,
                            !.retry_count = task[o].retry_count + 1,
                            !.error = "None",
                            !.scheduled_at = RetryDelay * Pow2(task[o].retry_count)]]_vars

\* the second retry of a task has taken effect: the delay has doubled
C29_SecondRetryMarked ==
    \E o \in 1..Len(task) :
        /\ task[o].status = RETRYING
        /\ task[o].retry_count = 2
        /\ task[o].error = "None"
        /\ task[o].scheduled_at = 2 * RetryDelay
        /\ NFail(o) = 2

\* ------------------------------------ retries of dependent tasks: SpecDep
\* a task whose body returns, and a task that depends on the first task
\* submitted, fails and may be retried once
DepInputs ==
    { Input(NORMAL, 0, 0, {}, "ok"),
      Input(NORMAL, 0, 1, {<<TaskType, 1>>}, "raise") }

InitDep ==
    /\ Constructed
    /\ lim = Bounds(DepTasks, DepCalls, DepDispatch)

NextDep ==
    \/ Submit(DepInputs)
    \/ Others

SpecDep == InitDep /\ [][NextDep]_vars

\* C30: Retrying is transient: no task remains in Retrying, whether or not
\* its dependencies are all Completed at the moment of the retry: a task is
\* in Retrying only while the retry that put it there is still being carried
\* out, and is Pending afterwards
C30_RetryingIsTransient ==
    \A o \in 1..Len(task) :
        InTable(o) /\ task[o].status = RETRYING => ~AtRest(o)

\* ------------------------------------------------------ retries used up
\* C31: a task that has failed with retry_count >= max_retries remains
\* Failed: neither the automatic retry nor a manual retry_task moves it out
\* of Failed, and it is not queued again
C31_FailedStaysFailed ==
    [][\A o \in 1..Len(task) :
          (task[o].status = FAILED /\ task[o].retry_count >= task[o].max_retries)
          => /\ task'[o].status = FAILED
             /\ Cardinality(Places(o)') <= Cardinality(Places(o))]_vars

\* ------------------------------------------ the loop threads: SpecLoops
\* two request threads: besides the calls of the API thread, start() is
\* called while stop() waits for the loop thread to end
LoopsInputs ==
    { Input(NORMAL, 0, 1, {}, "raise"),
      Input(NORMAL, 0, 0, {}, "ok") }

InitLoops ==
    /\ Constructed
    /\ lim = Bounds(LoopsTasks, LoopsCalls, LoopsDispatch)

NextLoops ==
    \/ Submit(LoopsInputs)
    \/ Others
    \/ StartWhileStopping
    \/ OrphanExit

SpecLoops == InitLoops /\ [][NextLoops]_vars

\* the _worker_loop threads that are alive
LoopThreads == (IF loop_pc = "loop" THEN 1 ELSE 0) + orphans

\* C32: at most one coordinating-loop thread is active at any time, under
\* any sequence and interleaving of start() and stop() calls
C32_OneLoopThread == LoopThreads <= 1

\* C33: the loop backs off on repeated faults: the sleep after a faulting
\* tick that follows a faulting tick is longer than the sleep before it, and
\* the sleep after a tick without fault is the normal interval
C33_LoopBacksOff ==
    [][/\ (TickFault /\ interval # NormalInterval) => interval' > interval
       /\ Tick => interval' = NormalInterval]_vars

\* ---------------------------------------------------------------- restart
\* some worker execution, or the cancel_task call that has cancelled its
\* future, is still to move the object o out of RUNNING
HasWorker(o) ==
    \/ \E f \in 1..Len(future) :
          future[f].o = o /\ future[f].st \in {"pending", "running"}
    \/ api.op = "cancel_running" /\ api.o = o

\* C36: the scheduler is restartable: after stop() and start() a Queued task
\* is dispatched to a worker that runs it to a terminal state, so no task is
\* ever in Running status without a worker execution that will move it out
C36_RunningHasWorker ==
    \A o \in 1..Len(task) :
        InTable(o) /\ task[o].status = RUNNING => HasWorker(o)

\* ------------------------------------------------ the metrics: SpecMetrics
\* the calls of the API thread include reset_metrics
MetricsInputs ==
    { Input(NORMAL, 0, 1, {}, "raise"),
      Input(NORMAL, 0, 0, {}, "ok") }

InitMetrics ==
    /\ Constructed
    /\ lim = Bounds(MetricsTasks, MetricsCalls, MetricsDispatch)

NextMetrics ==
    \/ Submit(MetricsInputs)
    \/ Others
    \/ ResetMetrics

SpecMetrics == InitMetrics /\ [][NextMetrics]_vars

\* C37: after any sequence of create_task, completions, failures and
\* reset_metrics, the snapshot that get_metrics returns has
\* total_tasks_completed <= total_tasks_created and 0 <= success_rate <= 100
C37_SnapshotInRange ==
    [][Taken("get_metrics", <<>>) =>
          /\ metrics'.total_tasks_completed <= metrics'.total_tasks_created
          /\ SuccessRate(metrics') \in 0..100]_vars

\* ------------------------------------------------ the administrative delete
\* the object o waits in the priority queue, or a worker is to run or is
\* running its body
Held(o) ==
    \/ Places(o) # {}
    \/ \E f \in 1..Len(future) :
          future[f].o = o /\ future[f].st \in {"pending", "running"}

\* C38: the administrative delete only removes tasks that are neither
\* waiting in the priority queue nor executing, so that the body of a deleted
\* task is never run afterwards
C38_DeleteOnlyUnheld ==
    [][\A id \in Keys(tasks) :
          Taken("delete", id) => ~Held(GetTask(id))]_vars

\* --------------------------------------------- progress: SpecLive
\* two tasks without dependencies: one whose body returns, one whose body
\* raises and may be retried once
LiveInputs ==
    { Input(NORMAL, 0, 0, {}, "ok"),
      Input(NORMAL, 0, 1, {}, "raise") }

InitLive ==
    /\ Constructed
    /\ lim = Bounds(LiveTasks, LiveCalls, LiveDispatch)

NextLive ==
    \/ Submit(LiveInputs)
    \/ Others

\* the loop thread, while it is alive, goes on with its next iteration, or
\* ends when it finds is_running false (lines 339-357: every iteration ends
\* in a sleep of bounded length)
LoopStep == Tick \/ TickFault \/ LoopExit

\* a pool thread goes on with the work item it has, and a free pool thread
\* takes the oldest pending one; the bodies terminate
PoolStep ==
    \E f \in 1..Len(future) :
        \/ RunFuture(f)
        \/ RunTaskCompleted(f)
        \/ RunTaskCounted(f)
        \/ RunTaskFailed(f)
        \/ AutoRetry(f)
        \/ NoAutoRetry(f)
        \/ AutoRetryMark(f)
        \/ AutoRetryQueue(f)

\* a request thread that is inside a call goes on to the end of the call
CallStep ==
    \/ CreateTaskQueue
    \/ RetryTaskMark
    \/ RetryTaskQueue
    \/ CancelTaskWrite
    \/ CancelRunningWrite
    \/ StopJoin
    \/ StopReturn

\* the threads are scheduled fairly; no call is ever bound to be made
SpecLive ==
    /\ InitLive
    /\ [][NextLive]_vars
    /\ WF_vars(LoopStep)
    /\ WF_vars(PoolStep)
    /\ WF_vars(CallStep)

\* the behaviour is explored up to a number of dispatches: nothing is said
\* of a task that waits when that number is reached
DispatchSpent == Len(future) >= lim.dispatch

\* the status of the o-th task created, if it has been created
StatusOf(o) == IF o <= Len(task) THEN task[o].status ELSE "none"

Terminal(o) ==
    IF o <= Len(task)
    THEN \/ task[o].status \in {COMPLETED, CANCELLED}
         \/ task[o].status = FAILED /\ task[o].retry_count = task[o].max_retries
    ELSE FALSE

\* the o-th task created has been created, without dependencies
NoDependencies(o) == IF o <= Len(task) THEN task[o].dependencies = {} ELSE FALSE

\* C35: every task without dependencies eventually reaches a terminal state
\* (Completed, Cancelled, or Failed with retry_count = max_retries), provided
\* the loop keeps running and the task is not deleted
C35_EventuallyTerminal ==
    \A o \in 1..LiveTasks :
        (NoDependencies(o) /\ InTable(o) /\ is_running)
            ~> (Terminal(o) \/ ~InTable(o) \/ ~is_running \/ DispatchSpent)

====
